---- MODULE Spec2Model ----
(***************************************************************************)
(* Model of the route optimizer: the grid road network (grid_road.py),     *)
(* the shortest-path engine, the POI distance matrix, the nearest-         *)
(* neighbour and 2-opt strategies (optimization_strategies.py), the        *)
(* GridRouteOptimizer entry point (grid_route_optimizer.py) and the main   *)
(* script (main.py, config.py).                                            *)
(*                                                                         *)
(* Intersection ids "grid_{x}_{y}" are modelled as the pair <<x, y>>.      *)
(* Distances are floats in the source; the model keeps integer cell sizes  *)
(* and a separate value Inf for float('inf').                              *)
(***************************************************************************)
EXTENDS Integers, Sequences, FiniteSets, TLC

\* ------------------------------------------------------------------ bounds
\* the grids of the shortest-path specification: 1 .. MaxWidth columns,
\* 1 .. MaxHeight rows, at most MaxBlocked roads and intersections blocked
MaxWidth == 3
MaxHeight == 2
MaxBlocked == 3
\* the grids of the route specification
RouteMaxWidth == 5
RouteMaxHeight == 1
RouteMaxBlocked == 1
\* the grids POIs are mapped on: up to PoiMaxWidth columns and PoiMaxHeight
\* rows
PoiMaxWidth == 3
PoiMaxHeight == 3
\* the configurations of the main script: at most so many blocked_roads
ConfigMaxBlockedRoads == 1

\* ------------------------------------------------------- program constants
CellSizes == {1, 50}
START == "distribution_center"
POIS == {START, "a", "b", "c"}
\* None, for an intersection id or a POI id
None == <<>>
\* float('inf'): a value no finite distance takes
Inf == -1

VARIABLES
  grid_width,      \* RoadGrid.grid_width
  grid_height,     \* RoadGrid.grid_height
  cell_size,       \* RoadGrid.cell_size
  intersections,   \* RoadGrid.intersections: id -> is_passable
  roads,           \* RoadGrid.roads: (from_id, to_id) -> is_passable
  poi_map,         \* RoadGrid.poi_map: poi id -> intersection id
  op,              \* the call made last: its name and arguments
  ret,             \* what the call made last returned or raised
  config,          \* Config.data, as main.py reads it
  strategies,      \* OptimizationStrategyFactory._strategies, in key order
  pc               \* main.py: the statement main() is at

vars == <<grid_width, grid_height, cell_size, intersections, roads, poi_map,
          op, ret, config, strategies, pc>>

grid == <<grid_width, grid_height, cell_size, intersections, roads, poi_map>>

\* --------------------------------------------------------- float arithmetic
\* float('inf') absorbs addition and is greater than every finite value.
Plus(a, b) == IF a = Inf \/ b = Inf THEN Inf ELSE a + b

Lt(a, b) == a # Inf /\ (b = Inf \/ a < b)

Le(a, b) == b = Inf \/ (a # Inf /\ a <= b)

RECURSIVE SqrtSearch(_, _, _)
SqrtSearch(n, lo, hi) ==
  IF lo >= hi THEN lo
  ELSE LET mid == (lo + hi + 1) \div 2
       IN  IF mid * mid <= n THEN SqrtSearch(n, mid, hi)
           ELSE SqrtSearch(n, lo, mid - 1)

\* x ** 0.5 for the perfect squares the grid produces
Sqrt(n) == SqrtSearch(n, 0, n)

\* ------------------------------------------------------------ grid_road.py
\* _create_grid: one intersection per cell, all passable
CreateIntersections(w, h) ==
  [id \in (0 .. w - 1) \X (0 .. h - 1) |-> TRUE]

\* mutant: the roads back (right to current, down to current) are not created
CreateOneWayRoadKeys(w, h) ==
  {<<c, <<c[1] + 1, c[2]>>>> :
     c \in {<<x, y>> \in (0 .. w - 1) \X (0 .. h - 1) : x < w - 1}}
  \cup {<<c, <<c[1], c[2] + 1>>>> :
          c \in {<<x, y>> \in (0 .. w - 1) \X (0 .. h - 1) : y < h - 1}}

\* mutant: the vertical roads (current to down and back) are not created
CreateHorizontalRoadKeys(w, h) ==
  LET horizontal == {<<x, y>> \in (0 .. w - 1) \X (0 .. h - 1) : x < w - 1}
  IN  {<<c, <<c[1] + 1, c[2]>>>> : c \in horizontal}
      \cup {<<<<c[1] + 1, c[2]>>, c>> : c \in horizontal}

\* _create_grid: a road in both directions between horizontal and vertical
\* neighbours, all passable
CreateRoadKeys(w, h) ==
  LET horizontal == {<<x, y>> \in (0 .. w - 1) \X (0 .. h - 1) : x < w - 1}
      vertical   == {<<x, y>> \in (0 .. w - 1) \X (0 .. h - 1) : y < h - 1}
  IN  {<<c, <<c[1] + 1, c[2]>>>> : c \in horizontal}
      \cup {<<<<c[1] + 1, c[2]>>, c>> : c \in horizontal}
      \cup {<<c, <<c[1], c[2] + 1>>>> : c \in vertical}
      \cup {<<<<c[1], c[2] + 1>>, c>> : c \in vertical}

CreateRoads(w, h) == [key \in CreateRoadKeys(w, h) |-> TRUE]

Max(a, b) == IF a >= b THEN a ELSE b
Min(a, b) == IF a <= b THEN a ELSE b

\* twice the pixel coordinate x * cell_size + cell_size / 2
Pixel2(c) == 2 * c * cell_size + cell_size

\* mutant: the square root is not taken
RoadDistanceSquared(from_id, to_id) ==
  LET dx == Pixel2(from_id[1]) - Pixel2(to_id[1])
      dy == Pixel2(from_id[2]) - Pixel2(to_id[2])
  IN  (dx * dx + dy * dy) \div 4

\* the weight get_neighbors computes for the road from_id -> to_id
RoadDistance(from_id, to_id) ==
  LET dx == Pixel2(from_id[1]) - Pixel2(to_id[1])
      dy == Pixel2(from_id[2]) - Pixel2(to_id[2])
  IN  Sqrt(dx * dx + dy * dy) \div 2

\* mutant: the is_passable flag of the road is not looked at
NeighborsOverBlockedRoads(intersection_id) ==
  {<<key[2], RoadDistance(key[1], key[2])>> :
     key \in {k \in DOMAIN roads : k[1] = intersection_id}}

\* get_neighbors: the (to_id, distance) pairs of the passable roads leaving
\* intersection_id
get_neighbors(intersection_id) ==
  {<<key[2], RoadDistance(key[1], key[2])>> :
     key \in {k \in DOMAIN roads : k[1] = intersection_id /\ roads[k]}}

\* add_poi: the intersection (grid_x, grid_y) is clamped to
AddPoiIntersection(w, h, grid_x, grid_y) ==
  <<Max(0, Min(grid_x, w - 1)), Max(0, Min(grid_y, h - 1))>>

\* mutant: a POI that is mapped keeps its intersection
MapPoiKeepsFirst(map, poi_id, intersection_id) ==
  [p \in DOMAIN map \cup {poi_id} |->
     IF p \in DOMAIN map THEN map[p] ELSE intersection_id]

\* self.poi_map[poi_id] = intersection_id
MapPoi(map, poi_id, intersection_id) ==
  [p \in DOMAIN map \cup {poi_id} |->
     IF p = poi_id THEN intersection_id ELSE map[p]]

\* get_poi_intersection: the intersection id of a mapped POI, None otherwise
get_poi_intersection(poi_id) ==
  IF poi_id \in DOMAIN poi_map /\ poi_map[poi_id] \in DOMAIN intersections
  THEN poi_map[poi_id]
  ELSE None

\* ------------------------------------------------ optimization_strategies.py
\* heapq orders the (distance, intersection id) tuples by distance, then by
\* the id string; for one-digit coordinates "grid_x_y" orders by x, then y
TupleLess(e, f) ==
  \/ e[1] < f[1]
  \/ e[1] = f[1] /\ (\/ e[2][1] < f[2][1]
                     \/ e[2][1] = f[2][1] /\ e[2][2] < f[2][2])

\* mutant: the largest tuple of the queue is popped
HeapLargest(pq) == CHOOSE e \in pq : \A f \in pq \ {e} : TupleLess(f, e)

\* heapq.heappop: the smallest tuple of the queue
HeapTop(pq) == CHOOSE e \in pq : \A f \in pq \ {e} : TupleLess(e, f)

\* the neighbours the inner for loop relaxes: not visited, strictly closer
Relaxed(current_distance, current_intersection, distances, visited) ==
  {n \in get_neighbors(current_intersection) :
     /\ n[1] \notin visited
     /\ Lt(Plus(current_distance, n[2]), distances[n[1]])}

RECURSIVE DistanceLoop(_, _, _, _)
DistanceLoop(distances, visited, pq, end_intersection) ==
  IF pq = {} THEN distances[end_intersection]
  ELSE
    LET top == HeapTop(pq)
        current_distance == top[1]
        current_intersection == top[2]
        rest == pq \ {top}
    IN  IF current_intersection \in visited
        THEN DistanceLoop(distances, visited, rest, end_intersection)
        ELSE IF current_intersection = end_intersection
        THEN current_distance
        ELSE
          LET relaxed == Relaxed(current_distance, current_intersection,
                                 distances, visited)
              closer  == {n[1] : n \in relaxed}
              new_distances ==
                [id \in DOMAIN distances |->
                   IF id \in closer
                   THEN Plus(current_distance,
                             RoadDistance(current_intersection, id))
                   ELSE distances[id]]
          IN  DistanceLoop(new_distances,
                           visited \cup {current_intersection},
                           rest \cup {<<new_distances[id], id>> : id \in closer},
                           end_intersection)

\* _dijkstra_distance
_dijkstra_distance(start_intersection, end_intersection) ==
  DistanceLoop([id \in DOMAIN intersections |->
                  IF id = start_intersection THEN 0 ELSE Inf],
               {}, {<<0, start_intersection>>}, end_intersection)

RECURSIVE PathLoop(_, _, _, _)
\* the while loop of _dijkstra_path: the previous pointers at its end
PathLoop(distances, previous, visited, pq) ==
  IF pq = {} THEN previous
  ELSE
    LET top == HeapTop(pq)
        current_distance == top[1]
        current_intersection == top[2]
        rest == pq \ {top}
    IN  IF current_intersection \in visited
        THEN PathLoop(distances, previous, visited, rest)
        ELSE
          LET relaxed == Relaxed(current_distance, current_intersection,
                                 distances, visited)
              closer  == {n[1] : n \in relaxed}
              new_distances ==
                [id \in DOMAIN distances |->
                   IF id \in closer
                   THEN Plus(current_distance,
                             RoadDistance(current_intersection, id))
                   ELSE distances[id]]
              new_previous ==
                [id \in DOMAIN previous |->
                   IF id \in closer THEN current_intersection
                   ELSE previous[id]]
          IN  PathLoop(new_distances, new_previous,
                       visited \cup {current_intersection},
                       rest \cup {<<new_distances[id], id>> : id \in closer})

RECURSIVE WalkBackUnreversed(_, _, _)
\* mutant: path is returned as collected, without path[::-1]
WalkBackUnreversed(previous, current, path) ==
  IF current = None THEN path
  ELSE WalkBackUnreversed(previous, previous[current], Append(path, current))

RECURSIVE WalkBack(_, _, _)
\* the reconstruction loop of _dijkstra_path, path[::-1] included
WalkBack(previous, current, path) ==
  IF current = None THEN path
  ELSE WalkBack(previous, previous[current], <<current>> \o path)

\* _dijkstra_path
_dijkstra_path(start_intersection, end_intersection) ==
  WalkBack(PathLoop([id \in DOMAIN intersections |->
                       IF id = start_intersection THEN 0 ELSE Inf],
                    [id \in DOMAIN intersections |-> None],
                    {}, {<<0, start_intersection>>}),
           end_intersection, <<>>)

\* set(destination_pois)
SetOf(seq) == {seq[i] : i \in 1 .. Len(seq)}

\* distance_matrix.get(key, float('inf'))
MatrixGet(distance_matrix, key) ==
  IF key \in DOMAIN distance_matrix THEN distance_matrix[key] ELSE Inf

\* _calculate_poi_distance_matrix: an entry for every ordered pair of
\* different POIs that both have an intersection
_calculate_poi_distance_matrix(pois) ==
  [key \in {k \in SetOf(pois) \X SetOf(pois) :
              /\ k[1] # k[2]
              /\ get_poi_intersection(k[1]) # None
              /\ get_poi_intersection(k[2]) # None} |->
     _dijkstra_distance(get_poi_intersection(key[1]),
                        get_poi_intersection(key[2]))]

\* mutant: min() returns the first destination the set yields, whatever its
\* distance
FirstOfSet(unvisited, set_order, current, distance_matrix) ==
  set_order[CHOOSE i \in 1 .. Len(set_order) :
              /\ set_order[i] \in unvisited
              /\ \A j \in 1 .. i - 1 : set_order[j] \notin unvisited]

\* min(unvisited, key=...): the first element, in the iteration order of the
\* set, among those of minimal key
MinByKey(unvisited, set_order, current, distance_matrix) ==
  LET minimal == {d \in unvisited :
                    \A e \in unvisited :
                      Le(MatrixGet(distance_matrix, <<current, d>>),
                         MatrixGet(distance_matrix, <<current, e>>))}
      first == CHOOSE i \in 1 .. Len(set_order) :
                 /\ set_order[i] \in minimal
                 /\ \A j \in 1 .. i - 1 : set_order[j] \notin minimal
  IN  set_order[first]

RECURSIVE NearestNeighborLoop(_, _, _, _, _)
NearestNeighborLoop(unvisited, path, current, set_order, distance_matrix) ==
  IF unvisited = {} THEN path
  ELSE LET nearest == MinByKey(unvisited, set_order, current, distance_matrix)
       IN  NearestNeighborLoop(unvisited \ {nearest}, Append(path, nearest),
                               nearest, set_order, distance_matrix)

\* mutant: the last destination of the list is never put in unvisited
NearestNeighborDropsLast(start_poi, destination_pois, set_order, matrix) ==
  NearestNeighborLoop(SetOf(SubSeq(destination_pois, 1,
                                   Len(destination_pois) - 1)),
                      <<start_poi>>, start_poi, set_order, matrix)

\* _solve_tsp_nearest_neighbor; set_order is the order in which this process
\* iterates over set(destination_pois)
_solve_tsp_nearest_neighbor(start_poi, destination_pois, set_order, matrix) ==
  NearestNeighborLoop(SetOf(destination_pois), <<start_poi>>, start_poi,
                      set_order, matrix)

\* seq[1:]
Rest(seq) == IF Len(seq) = 0 THEN <<>> ELSE Tail(seq)

RECURSIVE BuildLoop(_, _, _)
BuildLoop(poi_path, i, full_path) ==
  IF i > Len(poi_path) - 1 THEN full_path
  ELSE LET segment == _dijkstra_path(get_poi_intersection(poi_path[i]),
                                     get_poi_intersection(poi_path[i + 1]))
       IN  BuildLoop(poi_path, i + 1,
                     IF i = 1 THEN full_path \o segment
                     ELSE full_path \o Rest(segment))

\* _build_full_path (the source counts i from 0)
_build_full_path(poi_path) == BuildLoop(poi_path, 1, <<>>)

RECURSIVE PathDistanceLoop(_, _, _)
PathDistanceLoop(poi_path, i, total) ==
  IF i > Len(poi_path) - 1 THEN total
  ELSE PathDistanceLoop(poi_path, i + 1,
         Plus(total,
              _dijkstra_distance(get_poi_intersection(poi_path[i]),
                                 get_poi_intersection(poi_path[i + 1]))))

\* OptimizationStrategy._calculate_path_distance
_calculate_path_distance(poi_path) == PathDistanceLoop(poi_path, 1, 0)

RECURSIVE RouteDistanceLoop(_, _, _, _)
RouteDistanceLoop(route, distance_matrix, i, total) ==
  IF i > Len(route) - 1 THEN total
  ELSE RouteDistanceLoop(route, distance_matrix, i + 1,
         Plus(total, MatrixGet(distance_matrix, <<route[i], route[i + 1]>>)))

\* TwoOptStrategy._calculate_route_distance
_calculate_route_distance(route, distance_matrix) ==
  RouteDistanceLoop(route, distance_matrix, 1, 0)

\* mutant: the reversed segment starts at index 0
ReverseFromStart(best_route, i, j) ==
  [k \in 1 .. Len(best_route) |->
     IF k <= j THEN best_route[j + 1 - k] ELSE best_route[k]]

\* best_route[:i] + best_route[i:j][::-1] + best_route[j:], i and j counted
\* from 0 as in the source
ReverseSegment(best_route, i, j) ==
  [k \in 1 .. Len(best_route) |->
     IF i + 1 <= k /\ k <= j THEN best_route[i + 1 + j - k]
     ELSE best_route[k]]

\* mutant: j runs to len(best_route), so that a reversal can take the last
\* POI with it
SwapPairsToEnd(best_route) ==
  {p \in (1 .. Len(best_route) - 3) \X (2 .. Len(best_route)) :
     p[2] >= p[1] + 1 /\ p[2] - p[1] # 1}

\* the (i, j) pairs the two for loops of _two_opt visit
SwapPairs(best_route) ==
  {p \in (1 .. Len(best_route) - 3) \X (2 .. Len(best_route) - 1) :
     p[2] >= p[1] + 1 /\ p[2] - p[1] # 1}

\* mutant: the comparison of new_distance with best_distance is reversed
Lengthening(best_route, distance_matrix) ==
  {p \in SwapPairs(best_route) :
     Lt(_calculate_route_distance(best_route, distance_matrix),
        _calculate_route_distance(ReverseSegment(best_route, p[1], p[2]),
                                  distance_matrix))}

\* mutant: a reversal of the same distance counts as an improvement
NotLonger(best_route, distance_matrix) ==
  {p \in SwapPairs(best_route) :
     Le(_calculate_route_distance(ReverseSegment(best_route, p[1], p[2]),
                                  distance_matrix),
        _calculate_route_distance(best_route, distance_matrix))}

\* the pairs whose reversal is strictly shorter than best_distance
Improving(best_route, distance_matrix) ==
  {p \in SwapPairs(best_route) :
     Lt(_calculate_route_distance(ReverseSegment(best_route, p[1], p[2]),
                                  distance_matrix),
        _calculate_route_distance(best_route, distance_matrix))}

\* the pair at which the scan breaks: the first in scan order
FirstImproving(improving) ==
  CHOOSE p \in improving :
    \A q \in improving :
      p[1] < q[1] \/ (p[1] = q[1] /\ p[2] <= q[2])

RECURSIVE TwoOptLoop(_, _, _, _, _)
\* the while loop of _two_opt: <<best_route, iteration>> at its end
TwoOptLoop(best_route, improved, iteration, max_iterations, distance_matrix) ==
  IF ~(improved /\ iteration < max_iterations)
  THEN <<best_route, iteration>>
  ELSE LET improving == Improving(best_route, distance_matrix)
       IN  IF improving = {}
           THEN TwoOptLoop(best_route, FALSE, iteration + 1, max_iterations,
                           distance_matrix)
           ELSE LET p == FirstImproving(improving)
                IN  TwoOptLoop(ReverseSegment(best_route, p[1], p[2]), TRUE,
                               iteration + 1, max_iterations, distance_matrix)

\* mutant: the while loop does not look at max_iterations
ContinuesPastCap(improved, iteration, max_iterations) == improved

\* while improved and iteration < self.max_iterations
Continues(improved, iteration, max_iterations) ==
  improved /\ iteration < max_iterations

\* mutant: a round that commits nothing is not counted
RoundUncountedWithoutCommit(locals, distance_matrix) ==
  LET improving == Improving(locals.best_route, distance_matrix)
  IN  IF improving = {}
      THEN [locals EXCEPT !.improved = FALSE]
      ELSE [locals EXCEPT
              !.best_route = ReverseSegment(@, FirstImproving(improving)[1],
                                            FirstImproving(improving)[2]),
              !.improved = TRUE,
              !.iteration = @ + 1]

\* one round of the while loop of _two_opt on its local variables: the scan
\* commits the first strictly shorter reversal, if there is one
TwoOptRoundOf(locals, distance_matrix) ==
  LET improving == Improving(locals.best_route, distance_matrix)
  IN  IF improving = {}
      THEN [locals EXCEPT !.improved = FALSE, !.iteration = @ + 1]
      ELSE [locals EXCEPT
              !.best_route = ReverseSegment(@, FirstImproving(improving)[1],
                                            FirstImproving(improving)[2]),
              !.improved = TRUE,
              !.iteration = @ + 1]

\* TwoOptStrategy._two_opt
_two_opt(route, max_iterations, distance_matrix) ==
  TwoOptLoop(route, TRUE, 0, max_iterations, distance_matrix)

\* TwoOptStrategy.__init__: max_iterations: int = 1000
DefaultMaxIterations == 1000

\* [start_poi] + destination_pois
AllPois(start_poi, destination_pois) == <<start_poi>> \o destination_pois

\* from_intersection.intersection_id on None: _build_full_path and
\* _calculate_path_distance raise AttributeError when a POI of a path of two
\* or more POIs has no intersection
Unmapped(poi_path) ==
  /\ Len(poi_path) >= 2
  /\ \E i \in 1 .. Len(poi_path) : get_poi_intersection(poi_path[i]) = None

Raise(error) == [kind |-> "raise", error |-> error]

\* a call that returns None, and a call that returns a value
NoneRet == [kind |-> "None"]

Value(v) == [kind |-> "value", value |-> v]

Call(name, args) == [name |-> name, args |-> args]

OptimizedRoute(path, full_path, total_distance, algorithm_name, iterations) ==
  [kind |-> "OptimizedRoute", path |-> path, full_path |-> full_path,
   total_distance |-> total_distance, algorithm_name |-> algorithm_name,
   iterations |-> iterations]

\* NearestNeighborStrategy.optimize
NearestNeighborStrategy_optimize(start_poi, destination_pois, set_order) ==
  LET all_pois == AllPois(start_poi, destination_pois)
      distance_matrix == _calculate_poi_distance_matrix(all_pois)
      poi_path == _solve_tsp_nearest_neighbor(start_poi, destination_pois,
                                              set_order, distance_matrix)
  IN  IF Unmapped(poi_path) THEN Raise("AttributeError")
      ELSE OptimizedRoute(poi_path, _build_full_path(poi_path),
                          _calculate_path_distance(poi_path),
                          "TSP Nearest Neighbor", 0)

\* TwoOptStrategy.optimize
TwoOptStrategy_optimize(start_poi, destination_pois, set_order, max_iterations) ==
  LET all_pois == AllPois(start_poi, destination_pois)
      distance_matrix == _calculate_poi_distance_matrix(all_pois)
      nn_path == _solve_tsp_nearest_neighbor(start_poi, destination_pois,
                                             set_order, distance_matrix)
      refined == _two_opt(nn_path, max_iterations, distance_matrix)
      poi_path == refined[1]
  IN  IF Unmapped(poi_path) THEN Raise("AttributeError")
      ELSE OptimizedRoute(poi_path, _build_full_path(poi_path),
                          _calculate_path_distance(poi_path),
                          "TSP + 2-Opt Local Search", refined[2])

\* OptimizationStrategyFactory._strategies as the class body builds it: the
\* dict is kept as the sequence of its (name, class) items in key order
BuiltinStrategies ==
  <<<<"nearest_neighbor", "NearestNeighborStrategy">>,
    <<"2opt", "TwoOptStrategy">>>>

\* strategy_name in cls._strategies
Registered(strats, name) == \E i \in DOMAIN strats : strats[i][1] = name

\* cls._strategies[strategy_name]
Lookup(strats, name) == strats[CHOOSE i \in DOMAIN strats : strats[i][1] = name][2]

\* list(cls._strategies.keys())
Keys(strats) == [i \in DOMAIN strats |-> strats[i][1]]

\* mutant: a name that is registered keeps its class
SetItemKeepsFirst(strats, name, strategy_class) ==
  IF Registered(strats, name) THEN strats
  ELSE Append(strats, <<name, strategy_class>>)

\* cls._strategies[name] = strategy_class: a new key comes last, a key that
\* is there keeps its place
SetItem(strats, name, strategy_class) ==
  IF Registered(strats, name)
  THEN [i \in DOMAIN strats |->
          IF strats[i][1] = name THEN <<name, strategy_class>> ELSE strats[i]]
  ELSE Append(strats, <<name, strategy_class>>)

\* the keyword parameters of __init__ beside road_grid
InitParams(strategy_class) ==
  IF strategy_class = "TwoOptStrategy" THEN {"max_iterations"} ELSE {}

\* strategy_class(road_grid, **kwargs): the instance, by its class and fields
Construct(strategy_class, kwargs) ==
  IF ~(DOMAIN kwargs \subseteq InitParams(strategy_class))
  THEN Raise("TypeError")
  ELSE IF strategy_class = "TwoOptStrategy"
  THEN [kind |-> strategy_class,
        max_iterations |-> IF "max_iterations" \in DOMAIN kwargs
                           THEN kwargs.max_iterations
                           ELSE DefaultMaxIterations]
  ELSE [kind |-> strategy_class]

\* OptimizationStrategyFactory.create
OptimizationStrategyFactory_create(strategy_name, kwargs) ==
  IF ~Registered(strategies, strategy_name)
  THEN [kind |-> "raise", error |-> "ValueError",
        available |-> Keys(strategies)]
  ELSE Construct(Lookup(strategies, strategy_name), kwargs)

\* ------------------------------------------------- grid_route_optimizer.py
RECURSIVE WalkDistanceLoop(_, _, _)
WalkDistanceLoop(path, i, total) ==
  IF i > Len(path) - 1 THEN total
  ELSE LET hits == {n \in get_neighbors(path[i]) : n[1] = path[i + 1]}
       IN  WalkDistanceLoop(path, i + 1,
             IF hits = {} THEN total
             ELSE Plus(total, (CHOOSE n \in hits : TRUE)[2]))

\* GridRouteOptimizer._calculate_path_distance: the weights of the roads
\* between consecutive intersections of path
GridRouteOptimizer_calculate_path_distance(path) ==
  WalkDistanceLoop(path, 1, 0)

GridRoute(path, total_distance, poi_path) ==
  [kind |-> "GridRoute", path |-> path, total_distance |-> total_distance,
   poi_path |-> poi_path]

\* def optimize_route(self, start_poi, destination_pois)
optimize_route_params == {"start_poi", "destination_pois"}

\* GridRouteOptimizer.optimize_route called with the keyword arguments
\* kwargs: a keyword that is no parameter raises TypeError
optimize_route(kwargs, set_order) ==
  IF ~(DOMAIN kwargs \subseteq optimize_route_params)
  THEN Raise("TypeError")
  ELSE IF get_poi_intersection(kwargs.start_poi) = None
  THEN Raise("ValueError")
  ELSE
    LET all_pois == AllPois(kwargs.start_poi, kwargs.destination_pois)
        distance_matrix == _calculate_poi_distance_matrix(all_pois)
        poi_path == _solve_tsp_nearest_neighbor(kwargs.start_poi,
                      kwargs.destination_pois, set_order, distance_matrix)
    IN  IF Unmapped(poi_path) THEN Raise("AttributeError")
        ELSE LET full_path == _build_full_path(poi_path)
             IN  GridRoute(full_path,
                           GridRouteOptimizer_calculate_path_distance(full_path),
                           poi_path)

\* ---------------------------------------------------------- grid operations
\* pc = "idle": the grid is at rest; pc = "returned": op is the call just
\* made on it and ret its result

\* how many roads and intersections are blocked
Blocked ==
  Cardinality({k \in DOMAIN roads : ~roads[k]})
  + Cardinality({id \in DOMAIN intersections : ~intersections[id]})

\* mutant: the flag of the opposite direction is set as well
SetPassableBothWays(flags, key, is_passable) ==
  [k \in DOMAIN flags |->
     IF k = key \/ k = <<key[2], key[1]>> THEN is_passable ELSE flags[k]]

\* mutant: a key the dict does not hold is added to it
SetPassableOrCreate(flags, key, is_passable) ==
  [k \in DOMAIN flags \cup {key} |->
     IF k = key THEN is_passable ELSE flags[k]]

\* if key in self.roads: self.roads[key].is_passable = ... (and the same on
\* self.intersections): a key the dict does not hold changes nothing
SetPassable(flags, key, is_passable) ==
  IF key \in DOMAIN flags THEN [flags EXCEPT ![key] = is_passable] ELSE flags

\* RoadGrid.block_road
block_road(from_id, to_id) ==
  /\ pc = "idle"
  /\ (<<from_id, to_id>> \in DOMAIN roads /\ roads[<<from_id, to_id>>])
       => Blocked < MaxBlocked
  /\ roads' = SetPassable(roads, <<from_id, to_id>>, FALSE)
  /\ UNCHANGED <<grid_width, grid_height, cell_size, intersections, poi_map,
                 op, ret, config, strategies, pc>>

\* RoadGrid.unblock_road
unblock_road(from_id, to_id) ==
  /\ pc = "idle"
  /\ roads' = SetPassable(roads, <<from_id, to_id>>, TRUE)
  /\ UNCHANGED <<grid_width, grid_height, cell_size, intersections, poi_map,
                 op, ret, config, strategies, pc>>

\* RoadGrid.block_intersection
block_intersection(intersection_id) ==
  /\ pc = "idle"
  /\ (intersection_id \in DOMAIN intersections
      /\ intersections[intersection_id]) => Blocked < MaxBlocked
  /\ intersections' = SetPassable(intersections, intersection_id, FALSE)
  /\ UNCHANGED <<grid_width, grid_height, cell_size, roads, poi_map,
                 op, ret, config, strategies, pc>>

\* RoadGrid.unblock_intersection
unblock_intersection(intersection_id) ==
  /\ pc = "idle"
  /\ intersections' = SetPassable(intersections, intersection_id, TRUE)
  /\ UNCHANGED <<grid_width, grid_height, cell_size, roads, poi_map,
                 op, ret, config, strategies, pc>>

\* a call, on the grid as it is, whose result is kept in ret
Returns(name, args, result) ==
  /\ pc = "idle"
  /\ pc' = "returned"
  /\ op' = Call(name, args)
  /\ ret' = result
  /\ UNCHANGED <<grid, config, strategies>>

BlockRoad ==
  \E a \in DOMAIN intersections, b \in DOMAIN intersections : block_road(a, b)

UnblockRoad ==
  \E a \in DOMAIN intersections, b \in DOMAIN intersections :
    unblock_road(a, b)

BlockIntersection == \E a \in DOMAIN intersections : block_intersection(a)

UnblockIntersection == \E a \in DOMAIN intersections : unblock_intersection(a)

\* a call of RoadGrid.get_neighbors
QueryNeighbors ==
  \E a \in DOMAIN intersections :
    Returns("get_neighbors", <<a>>, Value(get_neighbors(a)))

\* a call of OptimizationStrategy._dijkstra_distance
QueryDistance ==
  \E a \in DOMAIN intersections, b \in DOMAIN intersections :
    Returns("_dijkstra_distance", <<a, b>>, Value(_dijkstra_distance(a, b)))

\* a call of OptimizationStrategy._dijkstra_path
QueryPath ==
  \E a \in DOMAIN intersections, b \in DOMAIN intersections :
    Returns("_dijkstra_path", <<a, b>>, Value(_dijkstra_path(a, b)))

\* no configuration: the grid is used as a library
NoConfig == [nodes |-> <<>>]

\* RoadGrid.__init__
NewGrid(w, h, size) ==
  /\ grid_width = w
  /\ grid_height = h
  /\ cell_size = size
  /\ intersections = CreateIntersections(w, h)
  /\ roads = CreateRoads(w, h)
  /\ poi_map = <<>>

\* ------------------------------------- specification: the shortest-path engine
Init ==
  /\ \E w \in 1 .. MaxWidth, h \in 1 .. MaxHeight, size \in CellSizes :
       NewGrid(w, h, size)
  /\ op = Call("__init__", <<>>)
  /\ ret = NoneRet
  /\ config = NoConfig
  /\ strategies = BuiltinStrategies
  /\ pc = "idle"

Next ==
  \/ BlockRoad
  \/ UnblockRoad
  \/ BlockIntersection
  \/ UnblockIntersection
  \/ QueryNeighbors
  \/ QueryDistance
  \/ QueryPath

Spec == Init /\ [][Next]_vars

\* ---------------------------------------- specification: optimization runs
RECURSIVE SubsetsUpTo(_, _)
\* the subsets of S of at most n elements
SubsetsUpTo(S, n) ==
  IF n = 0 THEN {{}}
  ELSE LET smaller == SubsetsUpTo(S, n - 1)
       IN  smaller \cup {T \cup {x} : T \in smaller, x \in S}

\* the sequences that list every element of S once
Orders(S) ==
  {f \in [1 .. Cardinality(S) -> S] :
     \A i \in DOMAIN f, j \in DOMAIN f : i # j => f[i] # f[j]}

\* grid_y * grid_width + grid_x: the place of a cell in row order
CellIndex(w, id) == id[2] * w + id[1]

\* Where the POIs are.  The destinations are interchangeable (every
\* iteration order of their set is tried), so of the placements that differ
\* by renaming destinations one is kept.
Placements(w, h) ==
  {m \in [POIS -> (0 .. w - 1) \X (0 .. h - 1)] :
     /\ CellIndex(w, m["a"]) <= CellIndex(w, m["b"])
     /\ CellIndex(w, m["b"]) <= CellIndex(w, m["c"])}

RouteCellSizes == {1}

\* the destination lists of the runs: one, two and three destinations, a
\* destination listed twice, the start POI listed as a destination
DestinationLists ==
  {<<"a">>, <<"a", "b">>, <<"a", "b", "c">>, <<"a", "a">>, <<START, "a">>}

\* a grid with its POIs mapped and some roads blocked, as add_poi and
\* block_road calls leave it
InitRoute ==
  /\ \E w \in 1 .. RouteMaxWidth, h \in 1 .. RouteMaxHeight,
        size \in RouteCellSizes :
       /\ grid_width = w
       /\ grid_height = h
       /\ cell_size = size
       /\ intersections = CreateIntersections(w, h)
       /\ \E blocked \in SubsetsUpTo(CreateRoadKeys(w, h), RouteMaxBlocked) :
            roads = [key \in CreateRoadKeys(w, h) |-> key \notin blocked]
       /\ poi_map \in Placements(w, h)
  /\ op = Call("__init__", <<>>)
  /\ ret = NoneRet
  /\ config = NoConfig
  /\ strategies = BuiltinStrategies
  /\ pc = "idle"

\* a call of NearestNeighborStrategy(road_grid).optimize
OptimizeNearestNeighbor ==
  \E destination_pois \in DestinationLists :
    \E set_order \in Orders(SetOf(destination_pois)) :
      Returns("NearestNeighborStrategy.optimize",
              <<START, destination_pois, set_order>>,
              NearestNeighborStrategy_optimize(START, destination_pois,
                                               set_order))

\* a call of TwoOptStrategy(road_grid).optimize
OptimizeTwoOpt ==
  \E destination_pois \in DestinationLists :
    \E set_order \in Orders(SetOf(destination_pois)) :
      Returns("TwoOptStrategy.optimize",
              <<START, destination_pois, set_order>>,
              TwoOptStrategy_optimize(START, destination_pois, set_order,
                                      DefaultMaxIterations))

\* a call of OptimizationStrategy._build_full_path on a tour of the POIs
\* from the start POI
BuildFullPath ==
  \E rest \in Orders(POIS \ {START}) :
    Returns("_build_full_path", <<<<START>> \o rest>>,
            Value(_build_full_path(<<START>> \o rest)))

NextRoute == OptimizeNearestNeighbor \/ OptimizeTwoOpt \/ BuildFullPath

SpecRoute == InitRoute /\ [][NextRoute]_vars

\* ------------------------------------------------- config.py and main.py
\* Config: the defaults of get_grid_config
DEFAULT_GRID_WIDTH == 15
DEFAULT_GRID_HEIGHT == 12
DEFAULT_CELL_SIZE == 50

\* dict.get(key, default)
Get(dict, key, default) == IF key \in DOMAIN dict THEN dict[key] ELSE default

\* Config.get_grid_config
get_grid_config(data) ==
  LET grid_block == Get(data, "grid", <<>>)
  IN  [width |-> Get(grid_block, "width", DEFAULT_GRID_WIDTH),
       height |-> Get(grid_block, "height", DEFAULT_GRID_HEIGHT),
       cell_size |-> Get(grid_block, "cell_size", DEFAULT_CELL_SIZE),
       blocked_roads |-> Get(grid_block, "blocked_roads", <<>>)]

\* Config.get_blocked_roads
get_blocked_roads(data) == get_grid_config(data).blocked_roads

RECURSIVE AddNodes(_, _, _, _, _)
\* the for loop of main over config.get_nodes(): add_poi for every node
AddNodes(nodes, i, w, h, map) ==
  IF i > Len(nodes) THEN map
  ELSE AddNodes(nodes, i + 1, w, h,
                MapPoi(map, nodes[i].id,
                       AddPoiIntersection(w, h, nodes[i].grid_x,
                                          nodes[i].grid_y)))

\* the sequences over S of at most n elements
RECURSIVE SeqsUpTo(_, _)
SeqsUpTo(S, n) ==
  IF n = 0 THEN {<<>>}
  ELSE LET shorter == SeqsUpTo(S, n - 1)
       IN  shorter \cup {Append(q, x) : q \in shorter, x \in S}

\* the configurations main() loads: the distribution center and one address
\* on the grid, the address to deliver to or none
Configs ==
  {[grid |-> [width |-> w, height |-> h, cell_size |-> size,
              blocked_roads |-> blocked],
    nodes |-> <<[id |-> START, grid_x |-> x0, grid_y |-> 0],
                [id |-> "a", grid_x |-> x1, grid_y |-> y1]>>,
    delivery_addresses |-> addresses] :
     w \in 1 .. MaxWidth, h \in 1 .. MaxHeight, size \in CellSizes,
     blocked \in SeqsUpTo(CreateRoadKeys(MaxWidth, MaxHeight),
                          ConfigMaxBlockedRoads),
     x0 \in 0 .. MaxWidth - 1, x1 \in 0 .. MaxWidth - 1,
     y1 \in 0 .. MaxHeight - 1, addresses \in {<<>>, <<"a">>}}
  \cup
  {[nodes |-> <<[id |-> START, grid_x |-> 0, grid_y |-> 0],
                [id |-> "a", grid_x |-> x1, grid_y |-> y1]>>,
    delivery_addresses |-> <<"a">>] :
     x1 \in 0 .. MaxWidth - 1, y1 \in 0 .. MaxHeight - 1}

\* main(), config = Config("config.json") done, no grid yet
InitMain ==
  /\ config \in Configs
  /\ strategies = BuiltinStrategies
  /\ pc = "create_grid"
  /\ grid_width = 0
  /\ grid_height = 0
  /\ cell_size = 0
  /\ intersections = <<>>
  /\ roads = <<>>
  /\ poi_map = <<>>
  /\ op = Call("Config", <<>>)
  /\ ret = NoneRet

\* road_grid = RoadGrid(grid_width, grid_height, cell_size)
MainCreateGrid ==
  /\ pc = "create_grid"
  /\ LET grid_config == get_grid_config(config)
     IN  /\ grid_width' = grid_config.width
         /\ grid_height' = grid_config.height
         /\ cell_size' = grid_config.cell_size
         /\ intersections' = CreateIntersections(grid_config.width,
                                                 grid_config.height)
         /\ roads' = CreateRoads(grid_config.width, grid_config.height)
  /\ poi_map' = <<>>
  /\ pc' = "add_pois"
  /\ UNCHANGED <<op, ret, config, strategies>>

\* for node in config.get_nodes(): road_grid.add_poi(...)
MainAddPois ==
  /\ pc = "add_pois"
  /\ poi_map' = AddNodes(config.nodes, 1, grid_width, grid_height, poi_map)
  /\ pc' = "addresses"
  /\ UNCHANGED <<grid_width, grid_height, cell_size, intersections, roads,
                 op, ret, config, strategies>>

\* if not delivery_addresses: print(...); return
MainCheckAddresses ==
  /\ pc = "addresses"
  /\ pc' = IF config.delivery_addresses = <<>> THEN "done" ELSE "optimize"
  /\ UNCHANGED <<grid, op, ret, config, strategies>>

\* the keyword arguments of the two optimize_route calls of main
MainKwargs(strategy) ==
  [start_poi |-> START, destination_pois |-> config.delivery_addresses,
   strategy |-> strategy]

\* route_nearest = optimizer.optimize_route(..., strategy="nearest_neighbor")
\* route_optimized = optimizer.optimize_route(..., strategy="2opt")
\* an exception of the first call ends main() in its except clause
MainOptimize ==
  /\ pc = "optimize"
  /\ \E set_order \in Orders(SetOf(config.delivery_addresses)) :
       LET route_nearest ==
             optimize_route(MainKwargs("nearest_neighbor"), set_order)
       IN  IF route_nearest.kind = "raise"
           THEN /\ op' = Call("optimize_route", MainKwargs("nearest_neighbor"))
                /\ ret' = route_nearest
           ELSE /\ op' = Call("optimize_route", MainKwargs("2opt"))
                /\ ret' = optimize_route(MainKwargs("2opt"), set_order)
  /\ pc' = "done"
  /\ UNCHANGED <<grid, config, strategies>>

NextMain ==
  MainCreateGrid \/ MainAddPois \/ MainCheckAddresses \/ MainOptimize

SpecMain == InitMain /\ [][NextMain]_vars

\* ------------------------- specification: a grid is built and its POIs mapped
\* the widths or heights RoadGrid is constructed with, non-positive included
Dimensions(max) == -1 .. max

\* the POIs that are mapped, and the destination lists of the runs
PoiNames == {START, "a", "b"}

PoiDestinationLists == {<<>>, <<"a">>, <<"a", "b">>}

\* no call is under way and no result is held
NoCall == Call("", <<>>)

\* before road_grid = RoadGrid(...)
InitPoi ==
  /\ pc = "new"
  /\ grid_width = 0
  /\ grid_height = 0
  /\ cell_size = 0
  /\ intersections = <<>>
  /\ roads = <<>>
  /\ poi_map = <<>>
  /\ op = NoCall
  /\ ret = NoneRet
  /\ config = NoConfig
  /\ strategies = BuiltinStrategies

\* RoadGrid(grid_width, grid_height, cell_size): __init__ and _create_grid;
\* no statement of them looks at the sign of the dimensions
NewRoadGrid ==
  /\ pc = "new"
  /\ \E w \in Dimensions(PoiMaxWidth), h \in Dimensions(PoiMaxHeight),
        size \in CellSizes :
       /\ grid_width' = w
       /\ grid_height' = h
       /\ cell_size' = size
       /\ intersections' = CreateIntersections(w, h)
       /\ roads' = CreateRoads(w, h)
       /\ op' = Call("RoadGrid", <<w, h, size>>)
  /\ poi_map' = <<>>
  /\ ret' = [kind |-> "RoadGrid"]
  /\ pc' = "returned"
  /\ UNCHANGED <<config, strategies>>

\* RoadGrid.add_poi: maps the POI and returns the intersection id
add_poi(poi_id, grid_x, grid_y) ==
  /\ pc = "idle"
  /\ LET intersection_id ==
           AddPoiIntersection(grid_width, grid_height, grid_x, grid_y)
     IN  /\ poi_map' = MapPoi(poi_map, poi_id, intersection_id)
         /\ ret' = Value(intersection_id)
  /\ op' = Call("add_poi", <<poi_id, grid_x, grid_y>>)
  /\ pc' = "returned"
  /\ UNCHANGED <<grid_width, grid_height, cell_size, intersections, roads,
                 config, strategies>>

AddPoi ==
  \E poi_id \in PoiNames, grid_x \in Dimensions(PoiMaxWidth),
     grid_y \in Dimensions(PoiMaxHeight) : add_poi(poi_id, grid_x, grid_y)

\* the caller has taken the result of the call and goes on
Resume ==
  /\ pc = "returned"
  /\ pc' = "idle"
  /\ op' = NoCall
  /\ ret' = NoneRet
  /\ UNCHANGED <<grid, config, strategies>>

\* a call of _dijkstra_distance between the intersections of two POIs, as
\* _calculate_poi_distance_matrix makes them: for two different POIs that
\* both have an intersection
QueryPoiDistance ==
  \E from_poi \in DOMAIN poi_map, to_poi \in DOMAIN poi_map :
    /\ from_poi # to_poi
    /\ get_poi_intersection(from_poi) # None
    /\ get_poi_intersection(to_poi) # None
    /\ Returns("_dijkstra_distance",
               <<get_poi_intersection(from_poi), get_poi_intersection(to_poi)>>,
               Value(_dijkstra_distance(get_poi_intersection(from_poi),
                                        get_poi_intersection(to_poi))))

\* a call of NearestNeighborStrategy(road_grid).optimize
PoiOptimizeNearestNeighbor ==
  \E destination_pois \in PoiDestinationLists :
    \E set_order \in Orders(SetOf(destination_pois)) :
      Returns("NearestNeighborStrategy.optimize",
              <<START, destination_pois, set_order>>,
              NearestNeighborStrategy_optimize(START, destination_pois,
                                               set_order))

\* a call of TwoOptStrategy(road_grid).optimize
PoiOptimizeTwoOpt ==
  \E destination_pois \in PoiDestinationLists :
    \E set_order \in Orders(SetOf(destination_pois)) :
      Returns("TwoOptStrategy.optimize",
              <<START, destination_pois, set_order>>,
              TwoOptStrategy_optimize(START, destination_pois, set_order,
                                      DefaultMaxIterations))

NextPoi ==
  \/ NewRoadGrid
  \/ AddPoi
  \/ Resume
  \/ QueryNeighbors
  \/ QueryPoiDistance
  \/ PoiOptimizeNearestNeighbor
  \/ PoiOptimizeTwoOpt

SpecPoi == InitPoi /\ [][NextPoi]_vars

\* ------------------------------------ specification: the strategy factory
\* the names and classes register and create are called with
StrategyNames == {"nearest_neighbor", "2opt", "custom", "genetic"}

StrategyClasses == {"NearestNeighborStrategy", "TwoOptStrategy"}

\* the **kwargs of create: none, or a max_iterations
CreateKwargs == {<<>>, [max_iterations |-> 3]}

\* OptimizationStrategyFactory.register
register(name, strategy_class) ==
  /\ pc = "idle"
  /\ strategies' = SetItem(strategies, name, strategy_class)
  /\ op' = Call("register", <<name, strategy_class>>)
  /\ ret' = NoneRet
  /\ pc' = "returned"
  /\ UNCHANGED <<grid, config>>

FactoryRegister ==
  \E name \in StrategyNames, strategy_class \in StrategyClasses :
    register(name, strategy_class)

\* a call of OptimizationStrategyFactory.create
FactoryCreate ==
  \E strategy_name \in StrategyNames, kwargs \in CreateKwargs :
    Returns("create", <<strategy_name, kwargs>>,
            OptimizationStrategyFactory_create(strategy_name, kwargs))

NextFactory == FactoryRegister \/ FactoryCreate \/ Resume

SpecFactory == Init /\ [][NextFactory]_vars

\* ------------------------------- specification: _two_opt, round by round
\* pc = "two_opt": _two_opt is in its while loop; op holds its arguments
\* (route, self.max_iterations, distance_matrix) and ret its local variables
\* best_route, improved and iteration.

\* the max_iterations a TwoOptStrategy is constructed with
MaxIterationsValues == {0, 1, DefaultMaxIterations}

\* the routes _two_opt is called with: the start POI alone, and the tours of
\* one, two and all destinations from the start POI
TwoOptRoutes ==
  {<<START>>, <<START, "a">>, <<START, "a", "b">>, <<START, "b", "a">>}
    \cup {<<START>> \o rest : rest \in Orders(POIS \ {START})}

\* _two_opt is called: best_route = route[:], improved = True, iteration = 0
TwoOptCall ==
  /\ pc = "idle"
  /\ \E route \in TwoOptRoutes :
       LET distance_matrix == _calculate_poi_distance_matrix(route)
       IN  \E max_iterations \in MaxIterationsValues :
             op' = Call("_two_opt", <<route, max_iterations, distance_matrix>>)
  /\ ret' = [kind |-> "locals", best_route |-> op'.args[1],
             improved |-> TRUE, iteration |-> 0]
  /\ pc' = "two_opt"
  /\ UNCHANGED <<grid, config, strategies>>

\* one round of the while loop
TwoOptRound ==
  /\ pc = "two_opt"
  /\ Continues(ret.improved, ret.iteration, op.args[2])
  /\ ret' = TwoOptRoundOf(ret, op.args[3])
  /\ UNCHANGED <<grid, op, config, strategies, pc>>

\* return best_route, iteration
TwoOptReturn ==
  /\ pc = "two_opt"
  /\ ~Continues(ret.improved, ret.iteration, op.args[2])
  /\ ret' = Value(<<ret.best_route, ret.iteration>>)
  /\ pc' = "returned"
  /\ UNCHANGED <<grid, op, config, strategies>>

NextTwoOpt == TwoOptCall \/ TwoOptRound \/ TwoOptReturn

SpecTwoOpt == InitRoute /\ [][NextTwoOpt]_vars

\* a call that has begun runs on: the loop and the return are statements of
\* one sequential function
SpecTwoOptFair ==
  SpecTwoOpt /\ WF_vars(TwoOptRound) /\ WF_vars(TwoOptReturn)

\* ------------------------------ specification: the grid and its mutators
\* Every operation of RoadGrid that changes the grid, called in any order on
\* a grid just built, each call kept in op with what it returned, and the
\* distance matrix computed on the grid as it stands.

GridMaxWidth == 2

GridMaxHeight == 2

\* the most roads and intersections blocked at one time
GridMaxBlocked == 2

\* the POIs add_poi is called with
GridPois == {START, "a"}

\* the lists _calculate_poi_distance_matrix is called with
GridPoiLists == {<<START>>, <<START, "a">>}

InitGrid ==
  /\ \E w \in 1 .. GridMaxWidth, h \in 1 .. GridMaxHeight : NewGrid(w, h, 1)
  /\ op = NoCall
  /\ ret = NoneRet
  /\ config = NoConfig
  /\ strategies = BuiltinStrategies
  /\ pc = "idle"

\* a call of RoadGrid.block_road
GridBlockRoad ==
  \E a \in DOMAIN intersections, b \in DOMAIN intersections :
    /\ pc = "idle"
    /\ (<<a, b>> \in DOMAIN roads /\ roads[<<a, b>>])
         => Blocked < GridMaxBlocked
    /\ roads' = SetPassable(roads, <<a, b>>, FALSE)
    /\ op' = Call("block_road", <<a, b>>)
    /\ ret' = NoneRet
    /\ pc' = "returned"
    /\ UNCHANGED <<grid_width, grid_height, cell_size, intersections, poi_map,
                   config, strategies>>

\* a call of RoadGrid.unblock_road
GridUnblockRoad ==
  \E a \in DOMAIN intersections, b \in DOMAIN intersections :
    /\ pc = "idle"
    /\ roads' = SetPassable(roads, <<a, b>>, TRUE)
    /\ op' = Call("unblock_road", <<a, b>>)
    /\ ret' = NoneRet
    /\ pc' = "returned"
    /\ UNCHANGED <<grid_width, grid_height, cell_size, intersections, poi_map,
                   config, strategies>>

\* a call of RoadGrid.block_intersection
GridBlockIntersection ==
  \E a \in DOMAIN intersections :
    /\ pc = "idle"
    /\ intersections[a] => Blocked < GridMaxBlocked
    /\ intersections' = SetPassable(intersections, a, FALSE)
    /\ op' = Call("block_intersection", <<a>>)
    /\ ret' = NoneRet
    /\ pc' = "returned"
    /\ UNCHANGED <<grid_width, grid_height, cell_size, roads, poi_map,
                   config, strategies>>

\* a call of RoadGrid.unblock_intersection
GridUnblockIntersection ==
  \E a \in DOMAIN intersections :
    /\ pc = "idle"
    /\ intersections' = SetPassable(intersections, a, TRUE)
    /\ op' = Call("unblock_intersection", <<a>>)
    /\ ret' = NoneRet
    /\ pc' = "returned"
    /\ UNCHANGED <<grid_width, grid_height, cell_size, roads, poi_map,
                   config, strategies>>

\* a call of RoadGrid.add_poi, inside the grid and outside of it
GridAddPoi ==
  \E poi_id \in GridPois, grid_x \in Dimensions(GridMaxWidth),
     grid_y \in Dimensions(GridMaxHeight) : add_poi(poi_id, grid_x, grid_y)

\* a call of OptimizationStrategy._calculate_poi_distance_matrix
QueryMatrix ==
  \E pois \in GridPoiLists :
    Returns("_calculate_poi_distance_matrix", <<pois>>,
            Value(_calculate_poi_distance_matrix(pois)))

NextGrid ==
  \/ GridBlockRoad
  \/ GridUnblockRoad
  \/ GridBlockIntersection
  \/ GridUnblockIntersection
  \/ GridAddPoi
  \/ QueryMatrix
  \/ Resume

SpecGrid == InitGrid /\ [][NextGrid]_vars

\* ------------------------------------------------------------------ claims
\* b can be reached from a over passable roads: the least set closed under
\* following a passable road
RECURSIVE ReachableFrom(_)
ReachableFrom(S) ==
  LET T == S \cup {k[2] : k \in {r \in DOMAIN roads : roads[r] /\ r[1] \in S}}
  IN  IF T = S THEN S ELSE ReachableFrom(T)

Reachable(a, b) == b \in ReachableFrom({a})

Count(seq, x) == Cardinality({i \in DOMAIN seq : seq[i] = x})

IsOptimize ==
  /\ pc = "returned"
  /\ op.name \in {"NearestNeighborStrategy.optimize", "TwoOptStrategy.optimize"}

\* path starts with start_poi, is one longer than destination_pois and
\* holds the start POI and every destination exactly once
VisitsEachOnce(start_poi, destination_pois, path) ==
  /\ Len(path) = Len(destination_pois) + 1
  /\ path[1] = start_poi
  /\ Count(path, start_poi) = 1
  /\ \A i \in DOMAIN destination_pois : Count(path, destination_pois[i]) = 1

NoRepeats(seq) ==
  \A i \in DOMAIN seq, j \in DOMAIN seq : i # j => seq[i] # seq[j]

\* C1 as stated: for every list of mapped destinations, the path of the
\* route optimize returns starts with the start POI, is one longer than the
\* list and holds the start POI and every destination exactly once.
C1_EveryList ==
  IsOptimize =>
    /\ ret.kind = "OptimizedRoute"
    /\ VisitsEachOnce(op.args[1], op.args[2], ret.path)

\* C1 amended: the same, for every list of mapped destinations that names no
\* POI twice and does not name the start POI.
C1_DistinctDestinations ==
  (IsOptimize /\ NoRepeats(op.args[2]) /\ op.args[1] \notin SetOf(op.args[2]))
    => /\ ret.kind = "OptimizedRoute"
       /\ VisitsEachOnce(op.args[1], op.args[2], ret.path)

\* a 2-opt run over three destinations whose path is not the
\* nearest-neighbour path: a reversal was committed
C1_Witness ==
  /\ pc = "returned"
  /\ op.name = "TwoOptStrategy.optimize"
  /\ op.args[2] = <<"a", "b", "c">>
  /\ ret.kind = "OptimizedRoute"
  /\ ret.path # NearestNeighborStrategy_optimize(op.args[1], op.args[2],
                                                 op.args[3]).path
  /\ VisitsEachOnce(op.args[1], op.args[2], ret.path)

NoConsecutiveDuplicates(full_path) ==
  \A i \in 1 .. Len(full_path) - 1 : full_path[i] # full_path[i + 1]

\* C2: for every tour and every passability state of the grid, the full path
\* _build_full_path returns has no two consecutive equal intersections.
C2_NoConsecutiveDuplicates ==
  (pc = "returned" /\ op.name = "_build_full_path")
    => NoConsecutiveDuplicates(ret.value)

\* the same for the full path of the routes optimize returns
C2_OptimizeNoConsecutiveDuplicates ==
  (IsOptimize /\ ret.kind = "OptimizedRoute")
    => NoConsecutiveDuplicates(ret.full_path)

\* every consecutive pair of full_path is a passable road
Continuous(full_path) ==
  \A i \in 1 .. Len(full_path) - 1 :
    /\ <<full_path[i], full_path[i + 1]>> \in DOMAIN roads
    /\ roads[<<full_path[i], full_path[i + 1]>>]

\* two consecutive POIs of poi_path with no path of passable roads between
\* their intersections
UnreachablePair(poi_path) ==
  \E i \in 1 .. Len(poi_path) - 1 :
    ~Reachable(poi_map[poi_path[i]], poi_map[poi_path[i + 1]])

\* C3: optimize returns no route whose tour has an unreachable consecutive
\* pair (it raises Unreachable instead): a returned route has a finite total
\* distance and a continuous full path.  Stated for the destination lists
\* that name each POI once and not the start POI.
C3_UnreachableRaised ==
  (/\ IsOptimize
   /\ NoRepeats(op.args[2])
   /\ op.args[1] \notin SetOf(op.args[2])
   /\ ret.kind = "OptimizedRoute")
    => /\ ~UnreachablePair(ret.path)
       /\ ret.total_distance # Inf
       /\ Continuous(ret.full_path)

\* C4: for the same start POI, destinations and grid state, the total
\* distance of the 2-opt route is at most that of the nearest-neighbour
\* route (both calls iterating over the destination set in the same order,
\* as two calls of one process do).
C4_TwoOptNoWorse ==
  (pc = "returned" /\ op.name = "TwoOptStrategy.optimize"
   /\ ret.kind = "OptimizedRoute")
    => LET nearest == NearestNeighborStrategy_optimize(op.args[1], op.args[2],
                                                       op.args[3])
       IN  /\ nearest.kind = "OptimizedRoute"
           /\ Le(ret.total_distance, nearest.total_distance)

\* a 2-opt route strictly shorter than the nearest-neighbour route
C4_Witness ==
  /\ pc = "returned"
  /\ op.name = "TwoOptStrategy.optimize"
  /\ ret.kind = "OptimizedRoute"
  /\ ret.iterations >= 2
  /\ Lt(ret.total_distance,
        NearestNeighborStrategy_optimize(op.args[1], op.args[2],
                                         op.args[3]).total_distance)

\* C5: optimize_route, called as main calls it, takes the strategy name and
\* returns an OptimizedRoute: built by nearest neighbour alone for
\* "nearest_neighbor", by nearest neighbour and 2-opt for "2opt".
C5_StrategyDispatch ==
  (pc = "done" /\ op.name = "optimize_route") =>
    /\ ret.kind = "OptimizedRoute"
    /\ op.args.strategy = "nearest_neighbor"
         => ret.algorithm_name = "TSP Nearest Neighbor"
    /\ op.args.strategy = "2opt"
         => ret.algorithm_name = "TSP + 2-Opt Local Search"

\* C6: when main starts its optimization runs, every road of the
\* configuration's blocked_roads is blocked in the grid.
C6_BlockedRoadsApplied ==
  pc = "optimize" =>
    \A i \in DOMAIN get_blocked_roads(config) :
      get_blocked_roads(config)[i] \in DOMAIN roads
        => ~roads[get_blocked_roads(config)[i]]

Returned(name) == pc = "returned" /\ op.name = name

\* C7: get_neighbors(id) returns exactly the roads leaving id whose road and
\* whose destination intersection are both passable.
C7_NeighborsPassable ==
  Returned("get_neighbors") =>
    ret.value =
      {<<k[2], RoadDistance(k[1], k[2])>> :
         k \in {r \in DOMAIN roads :
                  r[1] = op.args[1] /\ roads[r] /\ intersections[r[2]]}}

\* C8: when b is reachable from a, _dijkstra_path(a, b) starts with a, ends
\* with b, follows passable roads only and visits no intersection twice.
C8_PathValid ==
  (Returned("_dijkstra_path") /\ Reachable(op.args[1], op.args[2])) =>
    /\ Len(ret.value) >= 1
    /\ ret.value[1] = op.args[1]
    /\ ret.value[Len(ret.value)] = op.args[2]
    /\ Continuous(ret.value)
    /\ NoRepeats(ret.value)

\* a path around a blocked road: between two intersections joined by a road
\* that is blocked, over three roads or more
C8_Witness ==
  /\ Returned("_dijkstra_path")
  /\ <<op.args[1], op.args[2]>> \in DOMAIN roads
  /\ ~roads[<<op.args[1], op.args[2]>>]
  /\ Reachable(op.args[1], op.args[2])
  /\ Len(ret.value) >= 4
  /\ Continuous(ret.value)

\* C9: in a grid with no road blocked, _dijkstra_distance(a, b) equals
\* _dijkstra_distance(b, a).
C9_Symmetric ==
  (Returned("_dijkstra_distance") /\ \A k \in DOMAIN roads : roads[k]) =>
    ret.value = _dijkstra_distance(op.args[2], op.args[1])

\* a distance over two roads or more in a grid with no road blocked
C9_Witness ==
  /\ Returned("_dijkstra_distance")
  /\ \A k \in DOMAIN roads : roads[k]
  /\ ret.value # Inf
  /\ ret.value >= 2 * cell_size
  /\ ret.value = _dijkstra_distance(op.args[2], op.args[1])

\* every road from or to x is blocked, and there is one
Isolated(x) ==
  /\ \E k \in DOMAIN roads : k[1] = x \/ k[2] = x
  /\ \A k \in DOMAIN roads : (k[1] = x \/ k[2] = x) => ~roads[k]

\* C10: _dijkstra_distance(a, b) returns infinity, and raises nothing,
\* exactly when no sequence of passable roads leads from a to b; so it does
\* to an intersection all of whose roads are blocked in both directions.
C10_InfinityIffUnreachable ==
  Returned("_dijkstra_distance") =>
    /\ ret.kind = "value"
    /\ (ret.value = Inf) <=> ~Reachable(op.args[1], op.args[2])
    /\ (Isolated(op.args[2]) /\ op.args[1] # op.args[2]) => ret.value = Inf

\* the distance to an intersection all of whose roads are blocked
C10_Witness ==
  /\ Returned("_dijkstra_distance")
  /\ Isolated(op.args[2])
  /\ op.args[1] # op.args[2]
  /\ ret.value = Inf

\* C11: when b is not reachable from a, a # b, _dijkstra_path(a, b) returns
\* the empty sequence.
C11_UnreachableEmpty ==
  (/\ Returned("_dijkstra_path")
   /\ op.args[1] # op.args[2]
   /\ ~Reachable(op.args[1], op.args[2])) => ret.value = <<>>

\* what the source returns then: the one-element path of the end, equal to
\* the path from the end to itself
C11_UnreachableReturnsEnd ==
  (/\ Returned("_dijkstra_path")
   /\ ~Reachable(op.args[1], op.args[2])) =>
    /\ ret.value = <<op.args[2]>>
    /\ ret.value = _dijkstra_path(op.args[2], op.args[2])

\* the intersection id lies on the first or last column, row
OnColumnEdge(id) == id[1] = 0 \/ id[1] = grid_width - 1

OnRowEdge(id) == id[2] = 0 \/ id[2] = grid_height - 1

\* 4 for an interior intersection, 2 for a corner, 3 for another edge one
ExpectedNeighbors(id) ==
  IF OnColumnEdge(id) /\ OnRowEdge(id) THEN 2
  ELSE IF OnColumnEdge(id) \/ OnRowEdge(id) THEN 3
  ELSE 4

\* C12 as stated: in a freshly built grid of any width and height
\* get_neighbors returns 4 entries for an interior intersection, 2 for a
\* corner and 3 for an edge intersection that is no corner.
C12_NeighborCounts ==
  Returned("get_neighbors") =>
    Cardinality(ret.value) = ExpectedNeighbors(op.args[1])

\* C12, amended: the same in a freshly built grid of two or more columns and
\* two or more rows; a grid of one column or one row has corners of fewer
\* than 2 and edges of fewer than 3 neighbours.
C12_NeighborCountsWide ==
  (Returned("get_neighbors") /\ grid_width >= 2 /\ grid_height >= 2) =>
    /\ Cardinality(ret.value) = ExpectedNeighbors(op.args[1])
    /\ \A n \in ret.value : n[2] = cell_size

\* the neighbours of an interior intersection
C12_Witness ==
  /\ Returned("get_neighbors")
  /\ ~OnColumnEdge(op.args[1])
  /\ ~OnRowEdge(op.args[1])
  /\ Cardinality(ret.value) = 4

\* C13: RoadGrid(width, height, cell_size) with width <= 0 or height <= 0
\* raises InvalidDimension and yields no grid.
C13_InvalidDimension ==
  (/\ Returned("RoadGrid")
   /\ (op.args[1] <= 0 \/ op.args[2] <= 0))
    => /\ ret.kind = "raise"
       /\ ret.error = "InvalidDimension"

\* what the source does then: it returns a grid with no intersection and no
\* road
C13_EmptyGridBuilt ==
  (/\ Returned("RoadGrid")
   /\ (op.args[1] <= 0 \/ op.args[2] <= 0))
    => /\ ret.kind = "RoadGrid"
       /\ DOMAIN intersections = {}
       /\ DOMAIN roads = {}

\* a POI of the call, start or destination, has no intersection
SomeUnmapped(start_poi, destination_pois) ==
  \E i \in 1 .. Len(AllPois(start_poi, destination_pois)) :
    get_poi_intersection(AllPois(start_poi, destination_pois)[i]) = None

\* C14: optimize, of either strategy, called with a start or destination POI
\* that has no intersection raises UnmappedPoi and returns no route.  Stated
\* for the grids of positive width and height.
C14_UnmappedPoiRaised ==
  (/\ IsOptimize
   /\ grid_width > 0
   /\ grid_height > 0
   /\ SomeUnmapped(op.args[1], op.args[2]))
    => /\ ret.kind = "raise"
       /\ ret.error = "UnmappedPoi"

\* what the source does then: with no destination it returns a route of the
\* unmapped start POI alone, otherwise the attribute access on None raises
C14_UnmappedOutcome ==
  (IsOptimize /\ SomeUnmapped(op.args[1], op.args[2]))
    => IF op.args[2] = <<>>
       THEN /\ ret.kind = "OptimizedRoute"
            /\ ret.path = <<op.args[1]>>
            /\ ret.full_path = <<>>
            /\ ret.total_distance = 0
       ELSE ret = Raise("AttributeError")

\* C15: create raises an error that lists the registered names when the name
\* is not registered and returns an instance of the registered class when it
\* is; after register(name, cls), create(name) returns an instance of cls.
\* Stated for the calls whose keyword arguments the class takes.
C15_Factory ==
  /\ (Returned("create") /\ ~Registered(strategies, op.args[1])) =>
       /\ ret.kind = "raise"
       /\ ret.error = "ValueError"
       /\ SetOf(ret.available) = {strategies[i][1] : i \in DOMAIN strategies}
       /\ Len(ret.available) = Len(strategies)
  /\ (/\ Returned("create")
      /\ Registered(strategies, op.args[1])
      /\ DOMAIN op.args[2] \subseteq InitParams(Lookup(strategies, op.args[1])))
       => /\ ret.kind \in StrategyClasses
          /\ \E i \in DOMAIN strategies :
               strategies[i] = <<op.args[1], ret.kind>>
  /\ Returned("register") =>
       /\ OptimizationStrategyFactory_create(op.args[1], <<>>).kind = op.args[2]
       /\ Count(Keys(strategies), op.args[1]) = 1

\* a built-in name has been registered for the other class, and create of it
\* returns an instance of that class
C15_Witness ==
  /\ Returned("create")
  /\ op.args[1] = "2opt"
  /\ ret.kind = "NearestNeighborStrategy"
  /\ Registered(strategies, "custom")

\* v brought into lo .. hi
Clamp(v, lo, hi) == IF v < lo THEN lo ELSE IF v > hi THEN hi ELSE v

\* C16: on a grid of positive width and height add_poi(poi, x, y) does not
\* fail; it maps poi to the intersection at (x, y) clamped into the grid,
\* which exists, returns its id, replaces an earlier mapping of poi and leaves
\* the other mappings and the grid as they were.
C16_AddPoi ==
  [][(/\ pc = "idle"
      /\ pc' = "returned"
      /\ op'.name = "add_poi"
      /\ grid_width > 0
      /\ grid_height > 0) =>
       LET poi == op'.args[1]
           id  == <<Clamp(op'.args[2], 0, grid_width - 1),
                    Clamp(op'.args[3], 0, grid_height - 1)>>
       IN  /\ ret' = Value(id)
           /\ id \in DOMAIN intersections
           /\ DOMAIN poi_map' = DOMAIN poi_map \cup {poi}
           /\ poi_map'[poi] = id
           /\ \A p \in DOMAIN poi_map \ {poi} : poi_map'[p] = poi_map[p]
           /\ intersections' = intersections
           /\ roads' = roads]_vars

\* add_poi with a column beyond the last one has mapped the POI into the last
\* column, to an intersection another POI is mapped to as well
C16_Witness ==
  /\ Returned("add_poi")
  /\ grid_width > 1
  /\ grid_height > 1
  /\ op.args[2] > grid_width - 1
  /\ op.args[3] < 0
  /\ ret.value = <<grid_width - 1, 0>>
  /\ poi_map[op.args[1]] = ret.value
  /\ \E p \in DOMAIN poi_map : p # op.args[1] /\ poi_map[p] = ret.value

Abs(v) == IF v < 0 THEN -v ELSE v

Manhattan(a, b) == Abs(a[1] - b[1]) + Abs(a[2] - b[2])

\* cell_size times the Manhattan distances between the intersections of the
\* consecutive POIs of path
ManhattanLength(path) ==
  LET leg[i \in 0 .. Len(path) - 1] ==
        IF i = 0 THEN 0
        ELSE leg[i - 1]
             + cell_size * Manhattan(poi_map[path[i]], poi_map[path[i + 1]])
  IN  leg[Len(path) - 1]

\* the 3x3 grid of cell size 50 with the center at (1,1), a at (0,0) and b
\* at (2,2)
Scenario ==
  /\ grid_width = 3
  /\ grid_height = 3
  /\ cell_size = 50
  /\ DOMAIN poi_map = {START, "a", "b"}
  /\ poi_map[START] = <<1, 1>>
  /\ poi_map["a"] = <<0, 0>>
  /\ poi_map["b"] = <<2, 2>>

\* C17: with nothing blocked _dijkstra_distance is cell_size times the
\* Manhattan distance, and the total distance of a route is that of its
\* legs; in the 3x3 scenario the center is at 100 from a and from b and both
\* strategies return a route of total distance 100 + distance(a, b).
C17_Manhattan ==
  /\ Returned("_dijkstra_distance") =>
       ret.value = cell_size * Manhattan(op.args[1], op.args[2])
  /\ (/\ IsOptimize
      /\ ~SomeUnmapped(op.args[1], op.args[2])) =>
       /\ ret.kind = "OptimizedRoute"
       /\ ret.total_distance = ManhattanLength(ret.path)
  /\ (/\ Scenario
      /\ Returned("_dijkstra_distance")
      /\ op.args[1] = <<1, 1>>
      /\ op.args[2] \in {<<0, 0>>, <<2, 2>>}) => ret.value = 100
  /\ (/\ Scenario
      /\ IsOptimize
      /\ op.args[2] = <<"a", "b">>) =>
       /\ ret.total_distance = 100 + _dijkstra_distance(<<0, 0>>, <<2, 2>>)
       /\ ret.total_distance = 300

\* the 2-opt route of the scenario
C17_Witness ==
  /\ Scenario
  /\ IsOptimize
  /\ op.name = "TwoOptStrategy.optimize"
  /\ op.args[2] = <<"a", "b">>
  /\ ret.total_distance = 300
  /\ Len(ret.full_path) = 7

\* C18: the total_distance of every route optimize returns, the sum of the
\* shortest-path distances of its legs, equals the sum of the road weights
\* along the consecutive intersections of its full_path.  Stated for the
\* destination lists that name each POI once and not the start POI.
C18_SumsAgree ==
  (/\ IsOptimize
   /\ NoRepeats(op.args[2])
   /\ op.args[1] \notin SetOf(op.args[2])
   /\ ret.kind = "OptimizedRoute") =>
    ret.total_distance =
      GridRouteOptimizer_calculate_path_distance(ret.full_path)

\* the two sums agree on the routes whose legs all have a path
C18_SumsAgreeWhenReachable ==
  (/\ IsOptimize
   /\ ret.kind = "OptimizedRoute"
   /\ ~UnreachablePair(ret.path)) =>
    /\ ret.total_distance # Inf
    /\ ret.total_distance =
         GridRouteOptimizer_calculate_path_distance(ret.full_path)

\* p holds the elements of q, each as often as q does
IsPermutation(p, q) ==
  /\ Len(p) = Len(q)
  /\ \A x \in SetOf(p) \cup SetOf(q) : Count(p, x) = Count(q, x)

\* C19: in every round of _two_opt index 0 of best_route holds the start POI
\* and best_route is a permutation of the route given; so is the route
\* returned, which is the one the whole loop computes.
C19_StartStays ==
  /\ pc = "two_opt" =>
       /\ ret.best_route[1] = op.args[1][1]
       /\ IsPermutation(ret.best_route, op.args[1])
  /\ Returned("_two_opt") =>
       /\ ret.value[1][1] = op.args[1][1]
       /\ IsPermutation(ret.value[1], op.args[1])
       /\ ret.value = _two_opt(op.args[1], op.args[2], op.args[3])

\* a route returned after a committed reversal
C19_Witness ==
  /\ Returned("_two_opt")
  /\ ret.value[1] # op.args[1]
  /\ ret.value[2] = 2
  /\ ret.value[1][1] = START

\* C20, the safety part: the iteration count never exceeds max_iterations,
\* nothing is raised, _two_opt returns after a round without improving
\* reversal or with max_iterations rounds run, and the route returned is no
\* longer than the route given.
C20_Bounded ==
  /\ pc = "two_opt" => ret.iteration <= op.args[2]
  /\ Returned("_two_opt") =>
       /\ ret.kind = "value"
       /\ ret.value[2] <= op.args[2]
       /\ \/ ret.value[2] = op.args[2]
          \/ ret.value[2] >= 1 /\ Improving(ret.value[1], op.args[3]) = {}
       /\ Le(_calculate_route_distance(ret.value[1], op.args[3]),
             _calculate_route_distance(op.args[1], op.args[3]))

\* C20: _two_opt always terminates, within max_iterations rounds, with the
\* best route found so far and without raising.
C20_Terminates ==
  /\ []C20_Bounded
  /\ (pc = "two_opt") ~> (pc = "returned")

\* max_iterations reached in a round that committed a reversal: the route
\* returned is the improved one
C20_Witness ==
  /\ Returned("_two_opt")
  /\ op.args[2] = 1
  /\ ret.value[2] = 1
  /\ ret.value[1] # op.args[1]
  /\ Lt(_calculate_route_distance(ret.value[1], op.args[3]),
        _calculate_route_distance(op.args[1], op.args[3]))

\* C21: iteration is 0 when the loop is entered and grows by exactly one in
\* every round run, the last one included, and the count returned is that
\* number; a round that clears improved leaves best_route as it was and a
\* round that sets it commits a reversal; a return before max_iterations
\* follows at least one round, the last of which committed nothing.
C21_IterationCounts ==
  [][/\ (pc = "idle" /\ pc' = "two_opt") => ret'.iteration = 0
     /\ (pc = "two_opt" /\ pc' = "two_opt") =>
          /\ ret'.iteration = ret.iteration + 1
          /\ ~ret'.improved => ret'.best_route = ret.best_route
          /\ ret'.improved => ret'.best_route # ret.best_route
     /\ (pc = "two_opt" /\ pc' = "returned") =>
          /\ ret'.value[2] = ret.iteration
          /\ ret.iteration < op.args[2] =>
               ret.iteration >= 1 /\ ~ret.improved]_vars

\* a tour of four POIs returned after its only round, which found no
\* shorter reversal
C21_Witness ==
  /\ Returned("_two_opt")
  /\ op.args[2] = DefaultMaxIterations
  /\ Len(op.args[1]) = 4
  /\ ret.value = <<op.args[1], 1>>

\* the pair p comes before the pair q in the scan: i ascending, then j
ScannedBefore(p, q) == p[1] < q[1] \/ (p[1] = q[1] /\ p[2] < q[2])

\* the reversal of [i, j) of best_route is strictly shorter on the matrix
StrictlyShorter(best_route, p, distance_matrix) ==
  Lt(_calculate_route_distance(ReverseSegment(best_route, p[1], p[2]),
                               distance_matrix),
     _calculate_route_distance(best_route, distance_matrix))

\* the pairs 1 <= i < j < length with j - i > 1
ScannedPairs(route) ==
  {p \in (1 .. Len(route)) \X (1 .. Len(route)) :
     p[1] < p[2] /\ p[2] < Len(route) /\ p[2] - p[1] > 1}

\* best_route became next_route by committing the first pair of the scan
\* whose reversal is strictly shorter
CommitsFirstImproving(best_route, next_route, distance_matrix) ==
  \E p \in ScannedPairs(best_route) :
    /\ StrictlyShorter(best_route, p, distance_matrix)
    /\ \A q \in ScannedPairs(best_route) :
         ScannedBefore(q, p) => ~StrictlyShorter(best_route, q, distance_matrix)
    /\ next_route = ReverseSegment(best_route, p[1], p[2])

\* C22, the scan order: a round changes best_route only by committing the
\* first pair in scan order whose reversal is strictly shorter, and it
\* commits one whenever there is one.
C22_FirstImprovingCommitted ==
  [][(pc = "two_opt" /\ pc' = "two_opt") =>
       IF \E p \in ScannedPairs(ret.best_route) :
            StrictlyShorter(ret.best_route, p, op.args[3])
       THEN CommitsFirstImproving(ret.best_route, ret'.best_route, op.args[3])
       ELSE ret'.best_route = ret.best_route]_vars

\* C22: the first strictly shorter reversal in scan order is committed, and
\* the scan that restarts after a commit runs in the same round: it does not
\* increment the iteration counter.
C22_RestartInSameRound ==
  [][(pc = "two_opt" /\ pc' = "two_opt") =>
       /\ ret'.best_route # ret.best_route =>
            CommitsFirstImproving(ret.best_route, ret'.best_route, op.args[3])
       /\ (ret.iteration > 0 /\ ret.improved) =>
            ret'.iteration = ret.iteration]_vars

\* a call of NearestNeighborStrategy.optimize has returned a route
NearestReturned ==
  /\ pc = "returned"
  /\ op.name = "NearestNeighborStrategy.optimize"
  /\ ret.kind = "OptimizedRoute"

\* the destinations not yet in the path when its element k + 1 is chosen
UnvisitedAt(destination_pois, path, k) ==
  SetOf(destination_pois) \ {path[i] : i \in 2 .. k}

\* the unvisited destinations nearest to path[k] on the matrix, a missing
\* entry counting as infinity
NearestAt(destination_pois, path, k, distance_matrix) ==
  {d \in UnvisitedAt(destination_pois, path, k) :
     \A e \in UnvisitedAt(destination_pois, path, k) :
       Le(MatrixGet(distance_matrix, <<path[k], d>>),
          MatrixGet(distance_matrix, <<path[k], e>>))}

\* C23: every POI the nearest-neighbour path appends is an unvisited
\* destination nearest on the matrix to the POI before it, and the path ends
\* only when every destination is in it, those at infinite distance too.
C23_NearestAppended ==
  NearestReturned =>
    LET distance_matrix ==
          _calculate_poi_distance_matrix(AllPois(op.args[1], op.args[2]))
    IN  /\ Len(ret.path) = 1 + Cardinality(SetOf(op.args[2]))
        /\ ret.path[1] = op.args[1]
        /\ \A k \in 1 .. Len(ret.path) - 1 :
             ret.path[k + 1] \in NearestAt(op.args[2], ret.path, k,
                                          distance_matrix)

\* three destinations visited, the nearer ones first and one at infinite
\* distance last, no finite alternative being left
C23_Witness ==
  /\ NearestReturned
  /\ Len(ret.path) = 4
  /\ LET distance_matrix ==
           _calculate_poi_distance_matrix(AllPois(op.args[1], op.args[2]))
     IN  /\ MatrixGet(distance_matrix, <<ret.path[1], ret.path[2]>>) # Inf
         /\ Lt(MatrixGet(distance_matrix, <<ret.path[1], ret.path[2]>>),
               MatrixGet(distance_matrix, <<ret.path[1], ret.path[3]>>))
         /\ MatrixGet(distance_matrix, <<ret.path[3], ret.path[4]>>) = Inf

\* the index of the first occurrence of poi in destination_pois
FirstIndex(destination_pois, poi) ==
  CHOOSE i \in 1 .. Len(destination_pois) :
    /\ destination_pois[i] = poi
    /\ \A j \in 1 .. i - 1 : destination_pois[j] # poi

\* C24: among the unvisited destinations at the same minimal distance the
\* nearest-neighbour path takes the one that comes first in the destination
\* list given, so the path is a function of the inputs and the grid state.
C24_TiesByInputOrder ==
  NearestReturned =>
    LET distance_matrix ==
          _calculate_poi_distance_matrix(AllPois(op.args[1], op.args[2]))
    IN  \A k \in 1 .. Len(ret.path) - 1 :
          \A e \in NearestAt(op.args[2], ret.path, k, distance_matrix) :
            FirstIndex(op.args[2], ret.path[k + 1])
              <= FirstIndex(op.args[2], e)

\* the least of a set of distances
Least(S) == CHOOSE x \in S : \A y \in S : Le(x, y)

\* cost is a set of pairs (intersection, cost so far), one for every
\* intersection
CostOf(cost, v) == (CHOOSE e \in cost : e[1] = v)[2]

\* the cost of the cheapest walk of at most n more passable roads to every
\* intersection
RECURSIVE CheapestWithin(_, _)
CheapestWithin(cost, n) ==
  LET next ==
        {<<v, Least({CostOf(cost, v)} \cup
                    {Plus(CostOf(cost, k[1]), RoadDistance(k[1], k[2])) :
                       k \in {r \in DOMAIN roads : roads[r] /\ r[2] = v}})>> :
           v \in DOMAIN intersections}
  IN  IF n = 0 \/ next = cost THEN cost ELSE CheapestWithin(next, n - 1)

\* the least cost of a path of passable roads from a to b, infinity when
\* there is none
ShortestCost(a, b) ==
  CostOf(CheapestWithin({<<v, IF v = a THEN 0 ELSE Inf>> :
                           v \in DOMAIN intersections},
                        Cardinality(DOMAIN intersections)), b)

\* C25, for the POIs that have an intersection: the matrix holds an entry
\* for every ordered pair of different mapped POIs of pois, none for another
\* pair, and each entry is the least cost over passable roads.
C25_MappedEntries ==
  Returned("_calculate_poi_distance_matrix") =>
    /\ DOMAIN ret.value =
         {k \in SetOf(op.args[1]) \X SetOf(op.args[1]) :
            k[1] # k[2] /\ k[1] \in DOMAIN poi_map /\ k[2] \in DOMAIN poi_map}
    /\ \A k \in DOMAIN ret.value :
         ret.value[k] = ShortestCost(poi_map[k[1]], poi_map[k[2]])

\* C25: the matrix holds an entry for every ordered pair of different POIs
\* of pois and none for a self-pair, each entry the least cost of a path
\* of passable roads between the intersections of the two POIs.
C25_EveryOrderedPair ==
  Returned("_calculate_poi_distance_matrix") =>
    /\ DOMAIN ret.value =
         {k \in SetOf(op.args[1]) \X SetOf(op.args[1]) : k[1] # k[2]}
    /\ \A k \in DOMAIN ret.value :
         ret.value[k] = ShortestCost(poi_map[k[1]], poi_map[k[2]])

\* C26: block_road(from, to) and unblock_road(from, to) return None and
\* change the flag of the road (from, to) alone: the opposite road, every
\* other road, the intersections and the POI map stay, and nothing changes
\* when there is no such road; unblocking a road just blocked restores the
\* roads as they were before a passable road was blocked.
C26_RoadFrame ==
  [][(pc = "idle" /\ pc' = "returned"
      /\ op'.name \in {"block_road", "unblock_road"}) =>
       LET key == <<op'.args[1], op'.args[2]>>
       IN  /\ ret' = NoneRet
           /\ intersections' = intersections
           /\ poi_map' = poi_map
           /\ <<grid_width', grid_height', cell_size'>>
                = <<grid_width, grid_height, cell_size>>
           /\ DOMAIN roads' = DOMAIN roads
           /\ \A k \in DOMAIN roads : k # key => roads'[k] = roads[k]
           /\ key \in DOMAIN roads =>
                roads'[key] = (op'.name = "unblock_road")
           /\ key \notin DOMAIN roads => roads' = roads
           /\ (op'.name = "block_road" /\ key \in DOMAIN roads /\ roads[key])
                => [roads' EXCEPT ![key] = TRUE] = roads
           /\ (op'.name = "unblock_road" /\ key \in DOMAIN roads)
                => roads' = [roads EXCEPT ![key] = TRUE]]_vars

\* one direction of a road just blocked, the opposite direction open, on a
\* grid with a POI and a blocked intersection
C26_Witness ==
  /\ Returned("block_road")
  /\ <<op.args[1], op.args[2]>> \in DOMAIN roads
  /\ ~roads[<<op.args[1], op.args[2]>>]
  /\ roads[<<op.args[2], op.args[1]>>]
  /\ poi_map # <<>>
  /\ \E id \in DOMAIN intersections : ~intersections[id]

\* C27: in every state of the grid the roads are those of its construction:
\* a road joins two intersections of the grid one step apart, every such
\* pair has its road, and a road exists exactly when its opposite does.
C27_SegmentsFixed ==
  /\ DOMAIN roads = DOMAIN CreateRoads(grid_width, grid_height)
  /\ DOMAIN roads =
       {k \in (DOMAIN intersections) \X (DOMAIN intersections) :
          Manhattan(k[1], k[2]) = 1}
  /\ \A k \in (DOMAIN intersections) \X (DOMAIN intersections) :
       k \in DOMAIN roads <=> <<k[2], k[1]>> \in DOMAIN roads

\* a grid of eight roads after add_poi, block_road and block_intersection,
\* and a call of unblock_road on a pair that is no road
C27_Witness ==
  /\ Returned("unblock_road")
  /\ <<op.args[1], op.args[2]>> \notin DOMAIN roads
  /\ Cardinality(DOMAIN roads) = 8
  /\ poi_map # <<>>
  /\ \E k \in DOMAIN roads : ~roads[k]
  /\ \E id \in DOMAIN intersections : ~intersections[id]

\* C28: a route _two_opt returns with fewer than max_iterations rounds run
\* is a local optimum: no reversal of [i, j), 1 <= i < j < length and
\* j - i > 1, is strictly shorter on the matrix; and every reversal a round
\* commits makes best_route strictly shorter.
C28_LocalOptimum ==
  /\ [](Returned("_two_opt") /\ ret.value[2] < op.args[2] =>
          \A p \in ScannedPairs(ret.value[1]) :
            ~StrictlyShorter(ret.value[1], p, op.args[3]))
  /\ [][(pc = "two_opt" /\ pc' = "two_opt"
          /\ ret'.best_route # ret.best_route) =>
           Lt(_calculate_route_distance(ret'.best_route, op.args[3]),
              _calculate_route_distance(ret.best_route, op.args[3]))]_vars

\* a tour of four POIs returned strictly shorter than it was given, after a
\* round that committed a reversal and a round that found none
C28_Witness ==
  /\ Returned("_two_opt")
  /\ op.args[2] = DefaultMaxIterations
  /\ Len(op.args[1]) = 4
  /\ ret.value[2] = 2
  /\ Lt(_calculate_route_distance(ret.value[1], op.args[3]),
        _calculate_route_distance(op.args[1], op.args[3]))
  /\ \A p \in ScannedPairs(ret.value[1]) :
       ~StrictlyShorter(ret.value[1], p, op.args[3])

\* the last element of a route
Last(route) == route[Len(route)]

\* C29: the last POI of best_route is in every round the last POI of the
\* route given, so it is the last POI of the route returned; a route of
\* three POIs or fewer is returned as it was given.
C29_LastStays ==
  /\ pc = "two_opt" => Last(ret.best_route) = Last(op.args[1])
  /\ Returned("_two_opt") =>
       /\ Last(ret.value[1]) = Last(op.args[1])
       /\ Len(op.args[1]) <= 3 => ret.value[1] = op.args[1]

\* a tour of four POIs whose two middle POIs were exchanged, the last one
\* kept although visiting it earlier would be shorter
C29_Witness ==
  /\ Returned("_two_opt")
  /\ Len(op.args[1]) = 4
  /\ ret.value[1] = <<op.args[1][1], op.args[1][3], op.args[1][2],
                      op.args[1][4]>>
  /\ ret.value[1] # op.args[1]
  /\ \E tour \in TwoOptRoutes :
       /\ Len(tour) = 4
       /\ Last(tour) # Last(op.args[1])
       /\ Lt(_calculate_route_distance(tour, op.args[3]),
             _calculate_route_distance(ret.value[1], op.args[3]))

\* the sum of the weights of the roads between the consecutive intersections
\* of path
PathWeight(path) ==
  LET sum[i \in 0 .. Len(path) - 1] ==
        IF i = 0 THEN 0
        ELSE Plus(sum[i - 1], RoadDistance(path[i], path[i + 1]))
  IN  sum[Len(path) - 1]

\* C30: when b can be reached from a over passable roads, the weights of the
\* roads along _dijkstra_path(a, b) add up to _dijkstra_distance(a, b), and
\* that value is finite and the least cost of any path of passable roads
\* from a to b.
C30_VariantsAgree ==
  /\ (Returned("_dijkstra_path") /\ Reachable(op.args[1], op.args[2])) =>
       /\ Continuous(ret.value)
       /\ PathWeight(ret.value) = _dijkstra_distance(op.args[1], op.args[2])
       /\ PathWeight(ret.value) = ShortestCost(op.args[1], op.args[2])
       /\ PathWeight(ret.value) # Inf
  /\ (Returned("_dijkstra_distance") /\ Reachable(op.args[1], op.args[2])) =>
       ret.value = ShortestCost(op.args[1], op.args[2])

\* a detour of cells of 50 around blocked roads, in a grid where the other
\* direction is shorter: three roads out, weight 150, the way back one road
C30_Witness ==
  /\ Returned("_dijkstra_path")
  /\ cell_size = 50
  /\ PathWeight(ret.value) = 150
  /\ _dijkstra_distance(op.args[1], op.args[2]) = 150
  /\ ShortestCost(op.args[1], op.args[2]) = 150
  /\ ShortestCost(op.args[2], op.args[1]) = 50

====
